---- MODULE Spec2Model ----
(***************************************************************************)
(* The polling and retry loops of SharePointAccess                         *)
(* (src/core/sharepoint_class.py): wait_for_file, update_range_data,       *)
(* refresh_pivot_table and refresh_individual_pivot_table.                 *)
(*                                                                         *)
(* One behaviour is one invocation of one of the four methods.  The HTTP   *)
(* session, the clock and time.sleep are the environment: every request    *)
(* draws its response from a small set, every request and every sleep      *)
(* advances the clock.  `log` records the calls made on the environment    *)
(* (requests, sleeps, diagnostic reads) in the order the code makes them.  *)
(***************************************************************************)
EXTENDS Integers, Sequences, FiniteSets, TLC

VARIABLES
    fn,                 \* the method invoked
    pc,                 \* position in the method's body
    max_retries,        \* argument max_retries
    timeout,            \* argument timeout (wait_for_file)
    poll_interval,      \* argument poll_interval (wait_for_file)
    attempt,            \* loop variable of update_range_data (-1: not yet bound)
    retry_count,        \* local of the two refresh methods
    last_refresh_error, \* local of the two refresh methods
    response,           \* response / refresh_resp: the last response received
    wait_time,          \* local wait_time
    start_time,         \* local start_time (wait_for_file)
    now,                \* the wall clock, time.time()
    log,                \* calls made on the session and on time.sleep, in order
    outcome,            \* how the invocation ended ("none" while running)
    raised,             \* what the raised exception's message carries
    start,              \* argument start of update_range_data
    end,                \* argument end of update_range_data
    job,                \* the chunked job calling update_range_data, if any
    other               \* the frame of the invocation on the other thread, if any

vars == <<fn, pc, max_retries, timeout, poll_interval, attempt, retry_count,
          last_refresh_error, response, wait_time, start_time, now, log,
          outcome, raised, start, end, job, other>>

----------------------------------------------------------------------------
(* Bounds of the model *)

MaxRetriesBound == 3
MaxTimeout == 10
MaxPollInterval == 3
MaxLookupDuration == 1
MaxSleepOvershoot == 1
MaxStartClock == 1
ChunkSize == 2
MaxChunks == 3
MaxJobRetries == 3
MaxThreadRetries == 2
MaxThreadTimeout == 1
MaxThreadPollInterval == 1

----------------------------------------------------------------------------
(* Responses of the HTTP session *)

RetryFns == {"update_range_data", "refresh_pivot_table",
             "refresh_individual_pivot_table"}
Fns == RetryFns \cup {"wait_for_file"}

Statuses == {200, 204, 400, 401, 404, 429, 503}

\* Characters of a Retry-After value: decimal digits, a sign, a letter and
\* SUPERSCRIPT TWO (byte 0xB2 of a latin-1 decoded header).
DecimalChars == {"0", "1", "2", "3", "4", "5", "6", "7", "8", "9"}
SuperscriptChars == {"sup2"}

RetryAfterValues ==
    { <<>>, <<"0">>, <<"5">>, <<"1", "2">>, <<"-", "1">>, <<"a">>, <<"sup2">> }

\* response.headers restricted to Retry-After: << >> when the header is
\* absent, << v >> when it is present with value v.
HeaderSets == { <<>> } \cup { <<v>> : v \in RetryAfterValues }

NoResponse ==
    [kind |-> "none", status_code |-> 0, mrde |-> FALSE, headers |-> <<>>,
     json_ok |-> FALSE]

\* self._session.<verb>(...) raising instead of returning a response
TransportException ==
    [kind |-> "exception", status_code |-> 0, mrde |-> FALSE, headers |-> <<>>,
     json_ok |-> FALSE]

\* mrde: response.text contains "MaxRequestDurationExceeded"
\* json_ok: response.json() decodes to a JSON object
HttpResponses ==
    [kind : {"http"}, status_code : Statuses, mrde : BOOLEAN,
     headers : HeaderSets, json_ok : {TRUE}]

GetResponses ==
    [kind : {"http"}, status_code : Statuses, mrde : {FALSE},
     headers : { <<>> }, json_ok : BOOLEAN]

\* success taken as status 200 alone
OkOnly200(r) == r.kind = "http" /\ r.status_code = 200

\* requests.Response.ok: status_code below 400
Ok(r) == r.kind = "http" /\ r.status_code < 400

----------------------------------------------------------------------------
(* Pure helpers *)

RECURSIVE Pow2(_)
Pow2(n) == IF n <= 0 THEN 1 ELSE 2 * Pow2(n - 1)

\* str.isdigit(): non-empty and every character has the Unicode property
\* Digit, which the superscript digits have as well as the decimal ones.
IsDigit(s) ==
    /\ Len(s) > 0
    /\ \A i \in 1..Len(s) : s[i] \in DecimalChars \cup SuperscriptChars

DigitValue(c) ==
    CASE c = "0" -> 0 [] c = "1" -> 1 [] c = "2" -> 2 [] c = "3" -> 3
      [] c = "4" -> 4 [] c = "5" -> 5 [] c = "6" -> 6 [] c = "7" -> 7
      [] c = "8" -> 8 [] c = "9" -> 9 [] OTHER -> 0

\* int(s) raises ValueError unless s is a decimal numeral (the model's
\* strings carry no sign-then-digits numeral that reaches int()).
IntRaises(s) ==
    \/ Len(s) = 0
    \/ \E i \in 1..Len(s) : s[i] \notin DecimalChars

RECURSIVE IntOf(_)
IntOf(s) ==
    IF Len(s) = 0 THEN 0
    ELSE 10 * IntOf(SubSeq(s, 1, Len(s) - 1)) + DigitValue(s[Len(s)])

\* retry_after = response.headers.get("Retry-After")
HasRetryAfter(r) == Len(r.headers) > 0
RetryAfter(r) == r.headers[1]

\* `retry_after and retry_after.isdigit()`: None and "" are falsy
UsesHint(r) ==
    /\ HasRetryAfter(r)
    /\ Len(RetryAfter(r)) > 0
    /\ IsDigit(RetryAfter(r))

\* line 487: int(retry_after) raising ValueError
WaitTimeRaises(r) == UsesHint(r) /\ IntRaises(RetryAfter(r))

\* wait_time as the refresh methods compute it: one doubling too many
WaitTimeDoubled(r, k) ==
    IF UsesHint(r) THEN IntOf(RetryAfter(r)) ELSE Pow2(k + 1)

\* wait_time never below the exponential value
WaitTimeAtLeastBackoff(r, k) ==
    IF UsesHint(r) /\ IntOf(RetryAfter(r)) > Pow2(k)
    THEN IntOf(RetryAfter(r)) ELSE Pow2(k)

\* wait_time written `int(retry_after) or 2 ** attempt`: a hint of 0 is falsy
WaitTimeZeroIsFalsy(r, k) ==
    IF UsesHint(r) /\ IntOf(RetryAfter(r)) # 0
    THEN IntOf(RetryAfter(r)) ELSE Pow2(k)

\* line 487: wait_time
WaitTime(r, k) == IF UsesHint(r) THEN IntOf(RetryAfter(r)) ELSE Pow2(k)

\* line 484: the retryable test of update_range_data
UpdateRetryable(r) == r.status_code = 429 \/ r.mrde

\* the retryable test of update_range_data used in the refresh methods
RefreshRetryableWith429(r) == r.status_code = 429 \/ r.mrde

\* lines 518 and 591: the retryable test of the two refresh methods
RefreshRetryable(r) == r.mrde

\* the wait of update_range_data, 2 ** (number of earlier failures)
RefreshWaitTimeFromOne(rc) == Pow2(rc - 1)

\* lines 520 and 593: wait_time = 2 ** retry_count
RefreshWaitTime(rc) == Pow2(rc)

Retryable(f, r) ==
    IF f = "update_range_data" THEN UpdateRetryable(r) ELSE RefreshRetryable(r)

----------------------------------------------------------------------------
(* The log *)

Request == [ev |-> "request", arg |-> 0]
Diagnostic == [ev |-> "diag", arg |-> 0]
Sleep(w) == [ev |-> "sleep", arg |-> w]
\* the job calling update_range_data for its i-th chunk
Call(i) == [ev |-> "call", arg |-> i]

RECURSIVE Count(_, _)
Count(s, e) ==
    IF Len(s) = 0 THEN 0
    ELSE Count(Tail(s), e) + (IF Head(s).ev = e THEN 1 ELSE 0)

Requests == Count(log, "request")
Sleeps == Count(log, "sleep")

\* text: the response whose text the message quotes; attempts: the attempt
\* count the message quotes (-1: none); rows: the rows the message names
NoError == [kind |-> "none", text |-> NoResponse, attempts |-> -1, rows |-> <<>>]

\* the messages of update_range_data without "rows {start+1} to {end}"
ErrorWithoutRows(k, r, n) ==
    [kind |-> k, text |-> r, attempts |-> n, rows |-> <<>>]

\* lines 491 and 493 name "rows {start+1} to {end}"; the other messages
\* (lines 394, 535, 550, 598, 600) name no rows
Error(k, r, n) ==
    [kind |-> k, text |-> r, attempts |-> n,
     rows |-> IF fn = "update_range_data"
                 /\ k \in {"NonRetryableError", "RetriesExhausted"}
              THEN <<start + 1, end>> ELSE <<>>]

\* no chunked job: one invocation alone
\* the local variables and arguments of the invocation that is running
Frame ==
    [fn |-> fn, pc |-> pc, max_retries |-> max_retries, timeout |-> timeout,
     poll_interval |-> poll_interval, attempt |-> attempt,
     retry_count |-> retry_count, last_refresh_error |-> last_refresh_error,
     response |-> response, wait_time |-> wait_time, start_time |-> start_time,
     log |-> log, outcome |-> outcome, raised |-> raised,
     start |-> start, end |-> end]

\* no second thread
NoFrame ==
    [fn |-> "none", pc |-> "done", max_retries |-> 0, timeout |-> 0,
     poll_interval |-> 1, attempt |-> -1, retry_count |-> 0,
     last_refresh_error |-> NoResponse, response |-> NoResponse,
     wait_time |-> 0, start_time |-> 0, log |-> <<>>, outcome |-> "none",
     raised |-> NoError, start |-> 0, end |-> 0]

NoJob == [status |-> "none", n |-> 0, i |-> 0, results |-> <<>>, error |-> NoError]

----------------------------------------------------------------------------
(* Initial state: entry of one method with its arguments *)

Init ==
    /\ fn \in Fns
    /\ pc = "start"
    /\ max_retries \in (IF fn \in RetryFns THEN 0..MaxRetriesBound ELSE {0})
    /\ timeout \in (IF fn = "wait_for_file" THEN (-1)..MaxTimeout ELSE {0})
    /\ poll_interval \in (IF fn = "wait_for_file" THEN 1..MaxPollInterval ELSE {1})
    /\ attempt = -1
    /\ retry_count = 0
    /\ last_refresh_error = NoResponse
    /\ response = NoResponse
    /\ wait_time = 0
    /\ start_time = 0
    /\ now \in (IF fn = "wait_for_file" THEN 0..MaxStartClock ELSE {0})
    /\ log = <<>>
    /\ outcome = "none"
    /\ raised = NoError
    /\ start \in (IF fn = "update_range_data" THEN {0, ChunkSize} ELSE {0})
    /\ end = (IF fn = "update_range_data" THEN start + ChunkSize ELSE 0)
    /\ job = NoJob
    /\ other = NoFrame

\* a success branch without its return: control falls out of the if
ReturnMissing ==
    /\ pc' = (IF fn = "wait_for_file" THEN "sleep"
              ELSE IF fn = "update_range_data" THEN "for" ELSE "while")
    /\ UNCHANGED <<outcome, raised>>

\* lines 482, 513, 586 and 385-390: return
Return ==
    /\ pc' = "done"
    /\ outcome' = "returned"
    /\ raised' = NoError

Raise(k, r, n) ==
    /\ pc' = "done"
    /\ outcome' = k
    /\ raised' = Error(k, r, n)

----------------------------------------------------------------------------
(* update_range_data, lines 466-493 *)

\* lines 468-472: endpoint and body; nothing the loop reads changes
UpdateStart ==
    /\ fn = "update_range_data" /\ pc = "start"
    /\ pc' = "for"
    /\ UNCHANGED <<other, start, end, job, fn, max_retries, timeout, poll_interval, attempt, retry_count,
                   last_refresh_error, response, wait_time, start_time, now,
                   log, outcome, raised>>

\* the loop counter kept on the object (self.attempt) instead of in a local:
\* the invocation on the other thread sees it advance
UpdateForSharedCounter ==
    /\ fn = "update_range_data" /\ pc = "for"
    /\ IF attempt + 1 < max_retries
       THEN /\ attempt' = attempt + 1
            /\ other' = IF other.fn = "update_range_data"
                        THEN [other EXCEPT !.attempt = attempt + 1]
                        ELSE other
            /\ pc' = "request"
            /\ UNCHANGED <<outcome, raised>>
       ELSE /\ Raise("RetriesExhausted", NoResponse, max_retries)
            /\ UNCHANGED <<attempt, other>>
    /\ UNCHANGED <<start, end, job, fn, max_retries, timeout, poll_interval,
                   retry_count, last_refresh_error, response, wait_time,
                   start_time, now, log>>

\* line 493 quoting the last response instead of the attempt count
UpdateForQuotesResponse ==
    /\ fn = "update_range_data" /\ pc = "for"
    /\ IF attempt + 1 < max_retries
       THEN /\ attempt' = attempt + 1
            /\ pc' = "request"
            /\ UNCHANGED <<outcome, raised>>
       ELSE /\ Raise("RetriesExhausted", response, -1)
            /\ UNCHANGED attempt
    /\ UNCHANGED <<other, start, end, job, fn, max_retries, timeout, poll_interval,
                   retry_count, last_refresh_error, response, wait_time,
                   start_time, now, log>>

\* the loop running out without line 493: the method returns instead of
\* raising
UpdateForReturnsSilently ==
    /\ fn = "update_range_data" /\ pc = "for"
    /\ IF attempt + 1 < max_retries
       THEN /\ attempt' = attempt + 1
            /\ pc' = "request"
            /\ UNCHANGED <<outcome, raised>>
       ELSE /\ Return
            /\ UNCHANGED attempt
    /\ UNCHANGED <<other, start, end, job, fn, max_retries, timeout, poll_interval,
                   retry_count, last_refresh_error, response, wait_time,
                   start_time, now, log>>

\* the loop bounded by the requests made so far through the session, not by
\* this call's own counter
UpdateForSharedBudget ==
    /\ fn = "update_range_data" /\ pc = "for"
    /\ IF Requests < max_retries
       THEN /\ attempt' = attempt + 1
            /\ pc' = "request"
            /\ UNCHANGED <<outcome, raised>>
       ELSE /\ Raise("RetriesExhausted", NoResponse, max_retries)
            /\ UNCHANGED attempt
    /\ UNCHANGED <<other, start, end, job, fn, max_retries, timeout, poll_interval,
                   retry_count, last_refresh_error, response, wait_time,
                   start_time, now, log>>

\* line 474: for attempt in range(max_retries); line 493 when it is exhausted
UpdateFor ==
    /\ fn = "update_range_data" /\ pc = "for"
    /\ IF attempt + 1 < max_retries
       THEN /\ attempt' = attempt + 1
            /\ pc' = "request"
            /\ UNCHANGED <<outcome, raised>>
       ELSE /\ Raise("RetriesExhausted", NoResponse, max_retries)
            /\ UNCHANGED attempt
    /\ UNCHANGED <<other, start, end, job, fn, max_retries, timeout, poll_interval, retry_count,
                   last_refresh_error, response, wait_time, start_time, now, log>>

\* the responses drawn inside a chunked job: a subset that keeps each way
\* out of the loop (success, retry with and without a hint, ValueError,
\* non-retryable failure, transport exception)
JobResponses ==
    [kind : {"http"}, status_code : {200, 204, 404, 429}, mrde : {FALSE},
     headers : { <<>>, << <<"0">> >>, << <<"sup2">> >> }, json_ok : {TRUE}]
       \cup {TransportException}

\* the responses drawn beside another thread: success, retry with and
\* without a hint, non-retryable failure, transport exception
ThreadPatchResponses ==
    [kind : {"http"}, status_code : {200, 404, 429}, mrde : {FALSE},
     headers : { <<>>, << <<"0">> >> }, json_ok : {TRUE}]
       \cup {TransportException}

PatchResponses ==
    IF other # NoFrame THEN ThreadPatchResponses
    ELSE IF job.status # "none" THEN JobResponses
    ELSE HttpResponses \cup {TransportException}

\* lines 475-479: self._session.patch(...)
UpdateRequest ==
    /\ fn = "update_range_data" /\ pc = "request"
    /\ log' = Append(log, Request)
    /\ \E r \in PatchResponses :
          /\ response' = r
          /\ IF r.kind = "exception"
             THEN Raise("TransportError", NoResponse, -1)
             ELSE pc' = "handle" /\ UNCHANGED <<outcome, raised>>
    /\ UNCHANGED <<other, start, end, job, fn, max_retries, timeout, poll_interval, attempt, retry_count,
                   last_refresh_error, wait_time, start_time, now>>

\* lines 480-491: the branches on the response
UpdateHandle ==
    /\ fn = "update_range_data" /\ pc = "handle"
    /\ IF Ok(response)
       THEN Return /\ UNCHANGED wait_time
       ELSE IF UpdateRetryable(response)
       THEN IF WaitTimeRaises(response)
            THEN Raise("ValueError", NoResponse, -1) /\ UNCHANGED wait_time
            ELSE /\ wait_time' = WaitTime(response, attempt)
                 /\ pc' = "sleep"
                 /\ UNCHANGED <<outcome, raised>>
       ELSE Raise("NonRetryableError", response, -1) /\ UNCHANGED wait_time
    /\ UNCHANGED <<other, start, end, job, fn, max_retries, timeout, poll_interval, attempt, retry_count,
                   last_refresh_error, response, start_time, now, log>>

\* line 489: time.sleep(wait_time)
UpdateSleep ==
    /\ fn = "update_range_data" /\ pc = "sleep"
    /\ log' = Append(log, Sleep(wait_time))
    /\ pc' = "for"
    /\ UNCHANGED <<other, start, end, job, fn, max_retries, timeout, poll_interval, attempt, retry_count,
                   last_refresh_error, response, wait_time, start_time, now,
                   outcome, raised>>

----------------------------------------------------------------------------
(* refresh_pivot_table, lines 496-550, and refresh_individual_pivot_table,  *)
(* lines 552-600: the same loop; only refresh_pivot_table reads the list of *)
(* pivot tables for diagnostics before it raises.                           *)

RefreshFns == {"refresh_pivot_table", "refresh_individual_pivot_table"}

\* lines 506-507 and 579-580
RefreshStart(f) ==
    /\ fn = f /\ pc = "start"
    /\ retry_count' = 0
    /\ last_refresh_error' = NoResponse
    /\ pc' = "while"
    /\ UNCHANGED <<other, start, end, job, fn, max_retries, timeout, poll_interval, attempt, response,
                   wait_time, start_time, now, log, outcome, raised>>

\* lines 509 and 582: while retry_count < max_retries; after the loop
\* refresh_pivot_table goes on to its diagnostic read (line 538),
\* refresh_individual_pivot_table raises (line 600)
RefreshWhile(f) ==
    /\ fn = f /\ pc = "while"
    /\ IF retry_count < max_retries
       THEN pc' = "request" /\ UNCHANGED <<outcome, raised>>
       ELSE IF f = "refresh_pivot_table"
            THEN pc' = "diag_final" /\ UNCHANGED <<outcome, raised>>
            ELSE Raise("RetriesExhausted", last_refresh_error, -1)
    /\ UNCHANGED <<other, start, end, job, fn, max_retries, timeout, poll_interval, attempt, retry_count,
                   last_refresh_error, response, wait_time, start_time, now, log>>

\* lines 510 and 583: self._session.post(...)
RefreshRequest(f) ==
    /\ fn = f /\ pc = "request"
    /\ log' = Append(log, Request)
    /\ \E r \in HttpResponses \cup {TransportException} :
          /\ response' = r
          /\ IF r.kind = "exception"
             THEN Raise("TransportError", NoResponse, -1)
             ELSE pc' = "handle" /\ UNCHANGED <<outcome, raised>>
    /\ UNCHANGED <<other, start, end, job, fn, max_retries, timeout, poll_interval, attempt, retry_count,
                   last_refresh_error, wait_time, start_time, now>>

\* lines 511-523 and 584-598: the branches on the response
RefreshHandle(f) ==
    /\ fn = f /\ pc = "handle"
    /\ IF Ok(response)
       THEN /\ Return
            /\ UNCHANGED <<retry_count, last_refresh_error, wait_time>>
       ELSE /\ last_refresh_error' = response
            /\ IF RefreshRetryable(response)
               THEN /\ retry_count' = retry_count + 1
                    /\ wait_time' = RefreshWaitTime(retry_count + 1)
                    /\ pc' = "sleep"
                    /\ UNCHANGED <<outcome, raised>>
               ELSE /\ UNCHANGED <<retry_count, wait_time>>
                    /\ IF f = "refresh_pivot_table"
                       THEN pc' = "diag" /\ UNCHANGED <<outcome, raised>>
                       ELSE Raise("NonRetryableError", response, -1)
    /\ UNCHANGED <<other, start, end, job, fn, max_retries, timeout, poll_interval, attempt, response,
                   start_time, now, log>>

\* lines 522 and 595: time.sleep(wait_time)
RefreshSleep(f) ==
    /\ fn = f /\ pc = "sleep"
    /\ log' = Append(log, Sleep(wait_time))
    /\ pc' = "while"
    /\ UNCHANGED <<other, start, end, job, fn, max_retries, timeout, poll_interval, attempt, retry_count,
                   last_refresh_error, response, wait_time, start_time, now,
                   outcome, raised>>

\* lines 525-535 (pc = "diag") and 538-550 (pc = "diag_final"): the GET of
\* the pivot-table list, outside any try: a transport exception or a
\* json() failure of an ok response propagates; otherwise the refresh error
\* is raised.
RefreshDiagnostic ==
    /\ fn = "refresh_pivot_table" /\ pc \in {"diag", "diag_final"}
    /\ log' = Append(log, Diagnostic)
    /\ \E d \in GetResponses \cup {TransportException} :
          IF d.kind = "exception"
          THEN Raise("DiagnosticTransportError", NoResponse, -1)
          ELSE IF Ok(d) /\ ~d.json_ok
          THEN Raise("DiagnosticJSONError", NoResponse, -1)
          ELSE IF pc = "diag"
          THEN Raise("NonRetryableError", last_refresh_error, -1)
          ELSE Raise("RetriesExhausted", last_refresh_error, -1)
    /\ UNCHANGED <<other, start, end, job, fn, max_retries, timeout, poll_interval, attempt, retry_count,
                   last_refresh_error, response, wait_time, start_time, now>>

----------------------------------------------------------------------------
(* wait_for_file, lines 360-394 *)

\* the elapsed time taken from the clock alone
ElapsedSinceEpoch == now

\* line 378: time.time() - start_time
Elapsed == now - start_time

\* line 377: start_time = time.time()
WaitStart ==
    /\ fn = "wait_for_file" /\ pc = "start"
    /\ start_time' = now
    /\ pc' = "while"
    /\ UNCHANGED <<other, start, end, job, fn, max_retries, timeout, poll_interval, attempt, retry_count,
                   last_refresh_error, response, wait_time, now, log, outcome,
                   raised>>

\* the loop test written with <=: one more lookup at the deadline itself
WaitWhileInclusive ==
    /\ fn = "wait_for_file" /\ pc = "while"
    /\ IF Elapsed <= timeout
       THEN pc' = "request" /\ UNCHANGED <<outcome, raised>>
       ELSE Raise("Timeout", NoResponse, -1)
    /\ UNCHANGED <<other, start, end, job, fn, max_retries, timeout, poll_interval,
                   attempt, retry_count, last_refresh_error, response, wait_time,
                   start_time, now, log>>

\* line 378: while time.time() - start_time < timeout; line 394 after it
WaitWhile ==
    /\ fn = "wait_for_file" /\ pc = "while"
    /\ IF Elapsed < timeout
       THEN pc' = "request" /\ UNCHANGED <<outcome, raised>>
       ELSE Raise("Timeout", NoResponse, -1)
    /\ UNCHANGED <<other, start, end, job, fn, max_retries, timeout, poll_interval, attempt, retry_count,
                   last_refresh_error, response, wait_time, start_time, now, log>>

\* the responses drawn by a lookup; beside another thread a subset that
\* keeps each way through the loop body (found, failure status, body that
\* does not decode, transport exception)
ThreadGetResponses ==
    [kind : {"http"}, status_code : {200, 404}, mrde : {FALSE},
     headers : { <<>> }, json_ok : BOOLEAN]
       \cup {TransportException}

LookupResponses ==
    IF other = NoFrame
    THEN GetResponses \cup {TransportException}
    ELSE ThreadGetResponses

\* lines 380-381: self._session.get(...), which takes some time
WaitRequest ==
    /\ fn = "wait_for_file" /\ pc = "request"
    /\ log' = Append(log, Request)
    /\ \E r \in LookupResponses : response' = r
    /\ \E d \in 0..MaxLookupDuration : now' = now + d
    /\ pc' = "handle"
    /\ UNCHANGED <<other, start, end, job, fn, max_retries, timeout, poll_interval, attempt, retry_count,
                   last_refresh_error, wait_time, start_time, outcome, raised>>

\* a lookup taken as found without looking at response.ok
PresentIgnoresStatus(r) == r.kind = "http" /\ r.json_ok

\* lines 382-383: the response is ok and its body decodes
Present(r) == Ok(r) /\ r.json_ok

\* a lookup answered 400 or 401 taken as final: an error other than the
\* timeout ends the wait
WaitHandleRaisesOnClientError ==
    /\ fn = "wait_for_file" /\ pc = "handle"
    /\ IF Ok(response) /\ response.json_ok
       THEN Return
       ELSE IF response.kind = "http" /\ response.status_code \in {400, 401}
       THEN Raise("NonRetryableError", response, -1)
       ELSE pc' = "sleep" /\ UNCHANGED <<outcome, raised>>
    /\ UNCHANGED <<other, start, end, job, fn, max_retries, timeout, poll_interval, attempt, retry_count,
                   last_refresh_error, response, wait_time, start_time, now, log>>

\* the try block without its except: an exception of the request propagates
WaitHandlePropagates ==
    /\ fn = "wait_for_file" /\ pc = "handle"
    /\ IF response.kind = "exception"
       THEN Raise("TransportError", NoResponse, -1)
       ELSE IF Ok(response) /\ response.json_ok
       THEN Return
       ELSE pc' = "sleep" /\ UNCHANGED <<outcome, raised>>
    /\ UNCHANGED <<other, start, end, job, fn, max_retries, timeout, poll_interval, attempt, retry_count,
                   last_refresh_error, response, wait_time, start_time, now, log>>

\* lines 379-392: the try block; every exception (of the request, of
\* response.json()) is caught and printed, and a response that is not ok
\* falls through to the sleep as well
WaitHandle ==
    /\ fn = "wait_for_file" /\ pc = "handle"
    /\ IF Present(response)
       THEN Return
       ELSE pc' = "sleep" /\ UNCHANGED <<outcome, raised>>
    /\ UNCHANGED <<other, start, end, job, fn, max_retries, timeout, poll_interval, attempt, retry_count,
                   last_refresh_error, response, wait_time, start_time, now, log>>

\* line 393: time.sleep(poll_interval) returns no earlier than asked
WaitSleep ==
    /\ fn = "wait_for_file" /\ pc = "sleep"
    /\ log' = Append(log, Sleep(poll_interval))
    /\ \E o \in 0..MaxSleepOvershoot : now' = now + poll_interval + o
    /\ pc' = "while"
    /\ UNCHANGED <<other, start, end, job, fn, max_retries, timeout, poll_interval, attempt, retry_count,
                   last_refresh_error, response, wait_time, start_time, outcome,
                   raised>>

----------------------------------------------------------------------------

Next ==
    \/ UpdateStart
    \/ UpdateFor
    \/ UpdateRequest
    \/ UpdateHandle
    \/ UpdateSleep
    \/ RefreshStart("refresh_pivot_table")
    \/ RefreshWhile("refresh_pivot_table")
    \/ RefreshRequest("refresh_pivot_table")
    \/ RefreshHandle("refresh_pivot_table")
    \/ RefreshSleep("refresh_pivot_table")
    \/ RefreshDiagnostic
    \/ RefreshStart("refresh_individual_pivot_table")
    \/ RefreshWhile("refresh_individual_pivot_table")
    \/ RefreshRequest("refresh_individual_pivot_table")
    \/ RefreshHandle("refresh_individual_pivot_table")
    \/ RefreshSleep("refresh_individual_pivot_table")
    \/ WaitStart
    \/ WaitWhile
    \/ WaitRequest
    \/ WaitHandle
    \/ WaitSleep

Spec == Init /\ [][Next]_vars

\* The methods are sequential code: when the request or the sleep a method
\* is at returns, its next statement runs.
FairSpec == Spec /\ WF_vars(Next)

----------------------------------------------------------------------------
(* The chunked job of section 4.3 of the specification: the chunks of a    *)
(* dataset are applied in order, each by one call of update_range_data;    *)
(* the job collects one result per chunk and an exception of a call ends   *)
(* it.  The caller is not part of the source file; update_range_data is,   *)
(* and runs here by its own actions.                                        *)

JobInit ==
    /\ fn = "update_range_data"
    /\ pc = "idle"
    /\ max_retries \in 0..MaxJobRetries
    /\ timeout = 0
    /\ poll_interval = 1
    /\ attempt = -1
    /\ retry_count = 0
    /\ last_refresh_error = NoResponse
    /\ response = NoResponse
    /\ wait_time = 0
    /\ start_time = 0
    /\ now = 0
    /\ log = <<>>
    /\ outcome = "none"
    /\ raised = NoError
    /\ start = 0
    /\ end = 0
    /\ job \in [status : {"running"}, n : 1..MaxChunks, i : {0},
                results : { <<>> }, error : {NoError}]
    /\ other = NoFrame

\* the job calls update_range_data for its next chunk: a new frame, rows
\* start+1..end of the dataset
JobApply ==
    /\ job.status = "running" /\ pc = "idle"
    /\ job.i < job.n
    /\ job' = [job EXCEPT !.i = job.i + 1]
    /\ start' = job.i * ChunkSize
    /\ end' = (job.i + 1) * ChunkSize
    /\ log' = Append(log, Call(job.i + 1))
    /\ pc' = "start"
    /\ attempt' = -1
    /\ response' = NoResponse
    /\ wait_time' = 0
    /\ outcome' = "none"
    /\ raised' = NoError
    /\ UNCHANGED <<fn, max_retries, timeout, poll_interval, retry_count,
                   last_refresh_error, start_time, now, other>>

\* the call has ended: its return value True (line 482) is collected, its
\* exception ends the job
JobCollect ==
    /\ job.status = "running" /\ pc = "done"
    /\ IF outcome = "returned"
       THEN /\ job' = [job EXCEPT !.results = Append(job.results, TRUE),
                                  !.status = IF job.i = job.n THEN "done"
                                             ELSE "running"]
            /\ pc' = "idle"
       ELSE /\ job' = [job EXCEPT !.status = "failed", !.error = raised]
            /\ pc' = "failed"
    /\ UNCHANGED <<fn, max_retries, timeout, poll_interval, attempt, retry_count,
                   last_refresh_error, response, wait_time, start_time, now, log,
                   outcome, raised, start, end, other>>

JobNext ==
    \/ JobApply
    \/ JobCollect
    \/ UpdateStart
    \/ UpdateFor
    \/ UpdateRequest
    \/ UpdateHandle
    \/ UpdateSleep

JobSpec == JobInit /\ [][JobNext]_vars

----------------------------------------------------------------------------
(* Two invocations on two threads of a host (section 5 of the              *)
(* specification): update_range_data and wait_for_file keep their counters *)
(* and timers in local variables, so each thread has a frame of its own;   *)
(* the clock is the one thing both read.  One thread runs at a time, and   *)
(* the scheduler may switch between two steps of a method.                 *)

ThreadFns == {"update_range_data", "wait_for_file"}

\* the frames at the entry of a method, by the arguments of the call
EntryFrames(rows) ==
    { [NoFrame EXCEPT !.fn = "update_range_data", !.pc = "start",
                      !.max_retries = m, !.start = rows,
                      !.end = rows + ChunkSize] : m \in 0..MaxThreadRetries }
    \cup
    { [NoFrame EXCEPT !.fn = "wait_for_file", !.pc = "start",
                      !.timeout = a[1], !.poll_interval = a[2]] :
         a \in (0..MaxThreadTimeout) \X (1..MaxThreadPollInterval) }

ThreadInit ==
    /\ \E f \in EntryFrames(0) :
          /\ fn = f.fn
          /\ max_retries = f.max_retries
          /\ timeout = f.timeout
          /\ poll_interval = f.poll_interval
          /\ start = f.start
          /\ end = f.end
    /\ pc = "start"
    /\ attempt = -1
    /\ retry_count = 0
    /\ last_refresh_error = NoResponse
    /\ response = NoResponse
    /\ wait_time = 0
    /\ start_time = 0
    /\ now \in 0..MaxStartClock
    /\ log = <<>>
    /\ outcome = "none"
    /\ raised = NoError
    /\ job = NoJob
    /\ other \in EntryFrames(ChunkSize)

\* the scheduler suspends the running thread and resumes the other one:
\* the locals of each stay in its frame
Switch ==
    /\ other # NoFrame
    /\ other.pc # "done"
    /\ other' = Frame
    /\ fn' = other.fn
    /\ pc' = other.pc
    /\ max_retries' = other.max_retries
    /\ timeout' = other.timeout
    /\ poll_interval' = other.poll_interval
    /\ attempt' = other.attempt
    /\ retry_count' = other.retry_count
    /\ last_refresh_error' = other.last_refresh_error
    /\ response' = other.response
    /\ wait_time' = other.wait_time
    /\ start_time' = other.start_time
    /\ log' = other.log
    /\ outcome' = other.outcome
    /\ raised' = other.raised
    /\ start' = other.start
    /\ end' = other.end
    /\ UNCHANGED <<now, job>>

ThreadNext ==
    \/ Switch
    \/ UpdateStart
    \/ UpdateFor
    \/ UpdateRequest
    \/ UpdateHandle
    \/ UpdateSleep
    \/ WaitStart
    \/ WaitWhile
    \/ WaitRequest
    \/ WaitHandle
    \/ WaitSleep

ThreadSpec == ThreadInit /\ [][ThreadNext]_vars

----------------------------------------------------------------------------
(* Vocabulary of the properties *)

LastEvent == IF Len(log) = 0 THEN "none" ELSE log[Len(log)].ev
LastArg == IF Len(log) = 0 THEN -1 ELSE log[Len(log)].arg

\* the last response is a success (2xx)
Succeeded == response.kind = "http" /\ response.status_code \in 200..299

\* the last lookup of wait_for_file found the file
Found == Succeeded /\ response.json_ok

\* the last response is a failure
Failed == response.kind = "http" /\ response.status_code >= 400

\* a failure that is retryable as the specification words it: HTTP 429 or a
\* body containing MaxRequestDurationExceeded
SpecRetryable == response.status_code = 429 \/ response.mrde

\* the value a Retry-After string denotes when it is a decimal numeral
\* (one or more of the digits 0-9), written out for the strings of the model
Numeral == (<<"0">> :> 0) @@ (<<"5">> :> 5) @@ (<<"1", "2">> :> 12)

HintIsNumeral ==
    HasRetryAfter(response) /\ RetryAfter(response) \in DOMAIN Numeral

\* update_range_data has slept after the failed attempt `attempt` and is
\* back at the head of its loop
UpdateSleptAfterFailure ==
    /\ fn = "update_range_data"
    /\ pc = "for"
    /\ attempt >= 0

----------------------------------------------------------------------------
(* C1: for every max_retries N >= 1, a retry loop whose every response is a *)
(* retryable failure (HTTP 429 or a body containing                         *)
(* MaxRequestDurationExceeded) issues exactly N requests and then fails     *)
(* with the retries-exhausted error.  A loop only goes on after a failure   *)
(* it retried, so when it has ended with such a failure as its last         *)
(* response, every response of the run was one.                             *)
C1_AllRetryableRunsExactlyN ==
    (/\ fn \in RetryFns
     /\ max_retries >= 1
     /\ pc = "done"
     /\ Failed /\ SpecRetryable)
    => (outcome = "RetriesExhausted" /\ Requests = max_retries)

\* the part of C1 the loops do guarantee: never more than max_retries
\* requests, and the retries-exhausted error only after exactly max_retries
C1_NeverMoreThanN ==
    fn \in RetryFns =>
        /\ Requests <= max_retries
        /\ (outcome = "RetriesExhausted" => Requests = max_retries)

----------------------------------------------------------------------------
(* C2: in every retry loop the first response that is neither a success nor *)
(* retryable ends the call at once with the non-retryable error: no further *)
(* request of the wrapped call and no backoff sleep follow it.              *)
C2_NonRetryableEndsAtOnce ==
    [][(/\ fn \in RetryFns
        /\ pc \in {"handle", "diag"}
        /\ Failed /\ ~SpecRetryable)
       => (/\ \/ pc' = "diag" /\ outcome' = "none"
              \/ pc' = "done" /\ outcome' = "NonRetryableError"
           /\ \/ log' = log
              \/ log' = Append(log, Diagnostic))]_vars

\* the part of C2 the loops do guarantee: after such a response no request
\* of the wrapped call and no sleep is added to the log
C2_NoRequestNoSleepAfter ==
    [][(/\ fn \in RetryFns
        /\ pc \in {"handle", "diag"}
        /\ Failed /\ ~Retryable(fn, response))
       => (/\ pc' \in {"diag", "done"}
           /\ \/ log' = log
              \/ log' = Append(log, Diagnostic))]_vars

----------------------------------------------------------------------------
(* C3: in update_range_data the wait taken after the failed attempt number  *)
(* k (0-indexed), when the response carries no Retry-After header, is       *)
(* 1 * 2^k seconds.                                                         *)
C3_ExponentialBackoff ==
    (UpdateSleptAfterFailure /\ ~HasRetryAfter(response))
    => (/\ attempt = Requests - 1
        /\ LastEvent = "sleep"
        /\ LastArg = 2 ^ attempt)

C3_Witness ==
    /\ UpdateSleptAfterFailure
    /\ ~HasRetryAfter(response)
    /\ attempt = 2
    /\ LastEvent = "sleep" /\ LastArg = 4

----------------------------------------------------------------------------
(* C4: in update_range_data a retryable failure whose Retry-After value is  *)
(* a decimal numeral h is followed by a wait of exactly h seconds, whatever *)
(* the attempt number; the exponential value is the wait only when the      *)
(* value is no such numeral.                                                *)
C4_HintIsTheWait ==
    UpdateSleptAfterFailure
    => (/\ LastEvent = "sleep"
        /\ HintIsNumeral => LastArg = Numeral[RetryAfter(response)]
        /\ LastArg # 2 ^ attempt => HintIsNumeral)

C4_Witness ==
    /\ UpdateSleptAfterFailure
    /\ attempt = 2
    /\ HasRetryAfter(response) /\ RetryAfter(response) = <<"1", "2">>
    /\ LastEvent = "sleep" /\ LastArg = 12

----------------------------------------------------------------------------
(* C5: in update_range_data a retryable failure whose Retry-After value is  *)
(* "0" is followed by a sleep of zero seconds and then, while attempts      *)
(* remain, by the next request.                                             *)
C5_ZeroHintHonored ==
    [][(/\ fn = "update_range_data"
        /\ Failed /\ UpdateRetryable(response)
        /\ HasRetryAfter(response) /\ RetryAfter(response) = <<"0">>)
       => (/\ pc = "handle" => pc' = "sleep" /\ wait_time' = 0
           /\ pc = "sleep" => log' = Append(log, Sleep(0)) /\ pc' = "for"
           /\ (pc = "for" /\ attempt + 1 < max_retries)
                 => pc' = "request" /\ log' = log)]_vars

C5_Witness ==
    /\ fn = "update_range_data"
    /\ pc = "handle"
    /\ Len(log) = 3
    /\ log[2] = Sleep(0)
    /\ attempt = 1

----------------------------------------------------------------------------
(* C6: in update_range_data a Retry-After value that is present but is no   *)
(* non-negative integer never raises: the wait is 2^attempt and the loop    *)
(* goes on.                                                                 *)
C6_MalformedHintFallsBack ==
    [][(/\ fn = "update_range_data"
        /\ pc = "handle"
        /\ Failed /\ UpdateRetryable(response)
        /\ HasRetryAfter(response) /\ ~HintIsNumeral)
       => (/\ pc' = "sleep"
           /\ outcome' = "none"
           /\ attempt' = attempt
           /\ wait_time' = 2 ^ attempt)]_vars

----------------------------------------------------------------------------
(* C7, as claimed: every retry loop classifies a failed response as         *)
(* retryable when its status is 429 and when its body contains              *)
(* MaxRequestDurationExceeded, and every other failure as non-retryable.    *)
(* A response classified non-retryable is the one that is raised as the     *)
(* non-retryable error (after the diagnostic read in refresh_pivot_table).  *)
ClassifiedNonRetryable ==
    \/ pc' = "diag"
    \/ pc' = "done" /\ outcome' = "NonRetryableError"

C7_SamePredicateEverywhere ==
    [][(fn \in RetryFns /\ pc = "handle" /\ Failed)
       => (SpecRetryable <=> ~ClassifiedNonRetryable)]_vars

(* C7, amended: update_range_data classifies a failed response as retryable *)
(* when its status is 429 or its body contains MaxRequestDurationExceeded;  *)
(* the two refresh methods only when the body contains                      *)
(* MaxRequestDurationExceeded; every other failure is non-retryable.        *)
C7_PredicatePerLoop ==
    [][(fn \in RetryFns /\ pc = "handle" /\ Failed)
       => ((IF fn = "update_range_data" THEN SpecRetryable ELSE response.mrde)
              <=> ~ClassifiedNonRetryable)]_vars

C7_Witness ==
    /\ fn \in RefreshFns
    /\ response.kind = "http"
    /\ response.status_code = 429 /\ ~response.mrde
    /\ pc = "done"
    /\ outcome = "NonRetryableError"
    /\ Requests = 1 /\ max_retries = 3

----------------------------------------------------------------------------
(* C8: in every retry loop the first successful response ends the call with *)
(* a success result at once: no sleep and no request follows it, and the    *)
(* attempts left in the budget stay unused.                                 *)
C8_SuccessEndsAtOnce ==
    [][(fn \in RetryFns /\ Succeeded)
       => (/\ pc = "handle"
           /\ pc' = "done"
           /\ outcome' = "returned"
           /\ log' = log)]_vars

C8_Witness ==
    /\ fn \in RetryFns
    /\ Succeeded
    /\ pc = "done" /\ outcome = "returned"
    /\ LastEvent = "request"
    /\ Requests = 2 /\ Sleeps = 1
    /\ max_retries = 3

----------------------------------------------------------------------------
(* C9: wait_for_file whose lookup is absent on calls 1..k-1 and present on  *)
(* call k, call k starting before `timeout` seconds have elapsed, returns   *)
(* having made exactly k lookups and k-1 sleeps of poll_interval, none      *)
(* after the successful lookup.  Step by step: a lookup is started whenever *)
(* the loop test finds the elapsed time below timeout, an absent lookup is  *)
(* followed by one sleep and the loop test, a present one by the return.    *)
C9_ReturnsOnFirstPresent ==
    /\ [](fn = "wait_for_file" =>
            /\ outcome = "returned" =>
                  (Found /\ LastEvent = "request" /\ Sleeps = Requests - 1)
            /\ pc \in {"while", "request"} => Sleeps = Requests)
    /\ [][fn = "wait_for_file" =>
            /\ (pc = "while" /\ now - start_time < timeout)
                  => (pc' = "request" /\ log' = log)
            /\ pc = "request" => (pc' = "handle" /\ log' = Append(log, Request))
            /\ (pc = "handle" /\ Found)
                  => (pc' = "done" /\ outcome' = "returned" /\ log' = log)
            /\ (pc = "handle" /\ ~Found) => (pc' = "sleep" /\ log' = log)
            /\ pc = "sleep"
                  => (pc' = "while" /\ log' = Append(log, Sleep(poll_interval)))
         ]_vars

C9_Witness ==
    /\ fn = "wait_for_file"
    /\ timeout = 10 /\ poll_interval = 3
    /\ outcome = "returned"
    /\ Requests = 3 /\ Sleeps = 2
    /\ LastEvent = "request"

----------------------------------------------------------------------------
(* C10: wait_for_file raises the timeout error only when at least `timeout` *)
(* seconds have elapsed since the start time recorded once before the loop; *)
(* no iteration resets or moves that start time.                            *)
C10_TimeoutOnlyAfterDeadline ==
    /\ [](fn = "wait_for_file" /\ outcome = "Timeout"
             => now - start_time >= timeout)
    /\ [][(fn = "wait_for_file" /\ pc # "start")
             => start_time' = start_time]_vars

C10_Witness ==
    /\ fn = "wait_for_file"
    /\ timeout = 5
    /\ outcome = "Timeout"
    /\ Requests >= 2
    /\ start_time = 1
    /\ now - start_time >= 5

----------------------------------------------------------------------------
(* C11: in wait_for_file a lookup that raises is handled like an absent     *)
(* result: the error does not reach the caller, the poller sleeps           *)
(* poll_interval seconds and tests the deadline again; the only ways the    *)
(* poller ends are the return of a found file and the timeout error.        *)
RaisedLookup == response.kind = "exception"

C11_TransientErrorIsAbsent ==
    /\ [](fn = "wait_for_file" => outcome \in {"none", "returned", "Timeout"})
    /\ [][(fn = "wait_for_file" /\ RaisedLookup) =>
            /\ pc = "handle" => (pc' = "sleep" /\ outcome' = "none" /\ log' = log)
            /\ pc = "sleep"
                  => (/\ pc' = "while"
                      /\ outcome' = "none"
                      /\ log' = Append(log, Sleep(poll_interval)))
            /\ (pc = "while" /\ now - start_time < timeout)
                  => (pc' = "request" /\ outcome' = "none")
         ]_vars

\* the second lookup raised, was followed by the sleep, and the deadline
\* still leaves room for a third lookup
C11_Witness ==
    /\ fn = "wait_for_file"
    /\ RaisedLookup
    /\ pc = "while"
    /\ Requests = 2
    /\ LastEvent = "sleep" /\ LastArg = poll_interval
    /\ now - start_time < timeout
    /\ outcome = "none"

----------------------------------------------------------------------------
(* Vocabulary of the job properties *)

\* the part of the log that follows the last call of update_range_data
RECURSIVE SinceLastCall(_)
SinceLastCall(s) ==
    IF Len(s) = 0 \/ s[Len(s)].ev = "call" THEN <<>>
    ELSE Append(SinceLastCall(SubSeq(s, 1, Len(s) - 1)), s[Len(s)])

\* requests made by the current call of update_range_data
CurRequests == Count(SinceLastCall(log), "request")
Calls == Count(log, "call")

----------------------------------------------------------------------------
(* C12: in a job of chunks applied in order through update_range_data, a    *)
(* chunk whose retries are exhausted makes the job fail with an error that  *)
(* names that chunk's rows (start+1 to end), and update_range_data is never *)
(* called for a later chunk.                                                *)
C12_ExhaustedChunkHaltsJob ==
    /\ []((pc = "done" /\ LastEvent \in {"sleep", "call"})
            => (/\ outcome = "RetriesExhausted"
                /\ raised.rows = <<(job.i - 1) * ChunkSize + 1, job.i * ChunkSize>>
                /\ raised.attempts = max_retries))
    /\ [](job.status = "failed"
            => (/\ job.error = raised
                /\ Calls = job.i
                /\ Len(job.results) = job.i - 1))
    /\ [][(pc = "done" /\ outcome # "returned")
            => (job'.status = "failed" /\ job'.error = raised /\ log' = log)]_vars
    /\ [][job.status = "failed" => log' = log /\ job' = job]_vars

C12_Witness ==
    /\ job.n = 3 /\ job.i = 2
    /\ job.status = "failed"
    /\ job.error.kind = "RetriesExhausted"
    /\ job.error.rows = <<3, 4>>
    /\ job.results = <<TRUE>>
    /\ max_retries = 2 /\ CurRequests = 2
    /\ Calls = 2

----------------------------------------------------------------------------
(* C13: each chunk's retry budget is its own: every call of                 *)
(* update_range_data starts its attempt counter at 0 and may make           *)
(* max_retries requests, whatever the calls for earlier chunks consumed.    *)
C13_BudgetPerChunk ==
    /\ [](/\ pc = "start" => (attempt = -1 /\ CurRequests = 0)
          /\ pc \in {"handle", "sleep"} => attempt = CurRequests - 1
          /\ CurRequests <= max_retries
          /\ outcome = "RetriesExhausted" => CurRequests = max_retries)
    /\ [][(pc = "for" /\ CurRequests < max_retries)
            => (pc' = "request" /\ attempt' = CurRequests)]_vars

\* the first chunk used its whole budget and succeeded on its last attempt,
\* the second still had all of its own
C13_Witness ==
    /\ job.i = 2
    /\ outcome = "RetriesExhausted"
    /\ max_retries = 3
    /\ CurRequests = 3
    /\ Requests = 6

----------------------------------------------------------------------------
(* C14: a job of n chunks that all succeed on their first attempt ends with *)
(* one True per chunk, in chunk order, after exactly n requests and no      *)
(* sleep.                                                                   *)
C14_AllChunksFirstAttempt ==
    /\ [](job.status = "done"
            => (/\ Len(job.results) = job.n
                /\ \A k \in 1..job.n : job.results[k] = TRUE
                /\ Calls = job.n
                /\ Sleeps = 0 => Requests = job.n))
    /\ [][/\ (pc = "handle" /\ Succeeded)
               => (pc' = "done" /\ outcome' = "returned" /\ log' = log)
          /\ (pc = "done" /\ outcome = "returned")
               => (job'.results = Append(job.results, TRUE) /\ log' = log)
          /\ (pc = "idle" /\ job.status = "running")
               => (pc' = "start" /\ log' = Append(log, Call(job.i + 1)))
         ]_vars

C14_Witness ==
    /\ job.n = 3
    /\ job.status = "done"
    /\ job.results = <<TRUE, TRUE, TRUE>>
    /\ Requests = 3
    /\ Sleeps = 0

----------------------------------------------------------------------------
(* C15: in refresh_pivot_table, when a refresh attempt fails with a         *)
(* non-retryable error, the diagnostic read of the pivot-table list is      *)
(* issued after that refresh request and before the error reaches the       *)
(* caller, and the error raised is the original refresh failure.            *)
NonRetryableRefreshEnded ==
    /\ fn = "refresh_pivot_table"
    /\ pc = "done"
    /\ Failed /\ ~response.mrde

DiagnosticFollowsRefresh ==
    /\ Len(log) >= 2
    /\ log[Len(log)].ev = "diag"
    /\ log[Len(log) - 1].ev = "request"
    /\ Count(log, "diag") = 1

C15_DiagnosticThenOriginalError ==
    NonRetryableRefreshEnded
    => (/\ DiagnosticFollowsRefresh
        /\ outcome = "NonRetryableError"
        /\ raised.text = response)

\* the part of C15 the code does guarantee: the order of the calls
C15_DiagnosticBeforeRaise ==
    /\ NonRetryableRefreshEnded => DiagnosticFollowsRefresh
    /\ (fn = "refresh_pivot_table" /\ pc = "diag")
          => (outcome = "none" /\ LastEvent = "request")

----------------------------------------------------------------------------
(* C16: in refresh_pivot_table the diagnostic read never throws: whatever   *)
(* its outcome, the error that reaches the caller is the original refresh   *)
(* error (non-retryable failure or retries exhausted).                      *)
C16_DiagnosticNeverMasks ==
    (fn = "refresh_pivot_table" /\ pc = "done" /\ Count(log, "diag") > 0)
    => (/\ outcome \in {"NonRetryableError", "RetriesExhausted"}
        /\ raised.text = last_refresh_error)

----------------------------------------------------------------------------
(* C17: no terminal failure is suppressed: an invocation of any of the four *)
(* methods returns normally only if its last request got a successful       *)
(* response (for wait_for_file: found the file); every other run that ends  *)
(* raises an error, also when max_retries or timeout allows no request.     *)
C17_NoSilentFailure ==
    pc = "done"
    => (/\ outcome # "none"
        /\ outcome = "returned"
              => (/\ LastEvent = "request"
                  /\ IF fn = "wait_for_file" THEN Found ELSE Succeeded
                  /\ raised = NoError)
        /\ outcome # "returned" => raised.kind = outcome)

C17_Witness ==
    /\ fn = "update_range_data"
    /\ max_retries = 0
    /\ pc = "done"
    /\ Requests = 0
    /\ outcome = "RetriesExhausted"
    /\ raised.kind = "RetriesExhausted"

----------------------------------------------------------------------------
(* C19, as claimed: the retries-exhausted error of every retry loop carries *)
(* the last observed failure together with the attempt count.               *)
C19_ExhaustedCarriesLastFailure ==
    (fn \in RetryFns /\ outcome = "RetriesExhausted" /\ Requests >= 1)
    => (raised.text = response /\ raised.attempts = max_retries)

(* C19, amended: the retries-exhausted error of update_range_data carries   *)
(* the attempt count (max_retries) and the rows, and nothing of the last    *)
(* response; that of the two refresh methods carries the text of the last   *)
(* failed response (None when no request was made) and no attempt count.    *)
C19_WhatExhaustedCarries ==
    (fn \in RetryFns /\ outcome = "RetriesExhausted")
    => IF fn = "update_range_data"
       THEN /\ raised.text = NoResponse
            /\ raised.attempts = max_retries
            /\ raised.rows = <<start + 1, end>>
       ELSE /\ raised.text = response
            /\ Requests = 0 => raised.text = NoResponse
            /\ raised.attempts = -1

C19_Witness ==
    /\ fn = "update_range_data"
    /\ outcome = "RetriesExhausted"
    /\ max_retries = 3 /\ Requests = 3
    /\ Failed
    /\ raised.text = NoResponse
    /\ raised.attempts = 3

----------------------------------------------------------------------------
(* C20, as claimed: wait_for_file starts a lookup only when the elapsed     *)
(* time is below timeout, raises the timeout error at an elapsed time in    *)
(* [timeout, timeout + poll_interval + duration of one lookup), and with    *)
(* timeout <= 0 makes no lookup and raises at once.                         *)
LookupStartsBeforeDeadline ==
    [][(fn = "wait_for_file" /\ pc' = "request" /\ pc # "request")
          => now - start_time < timeout]_vars

NoLookupWithoutTime ==
    (fn = "wait_for_file" /\ timeout <= 0)
    => (Requests = 0 /\ Sleeps = 0 /\ (pc = "done" => outcome = "Timeout"))

C20_TimeoutWithinOneInterval ==
    /\ LookupStartsBeforeDeadline
    /\ [](NoLookupWithoutTime)
    /\ []((fn = "wait_for_file" /\ outcome = "Timeout")
            => (/\ now - start_time >= timeout
                /\ Requests >= 1 =>
                     now - start_time < timeout + poll_interval + MaxLookupDuration))

(* C20, amended: the same, the elapsed time at the timeout error being in   *)
(* [timeout, timeout + duration of the last lookup + duration of the last   *)
(* sleep), where time.sleep(poll_interval) lasts poll_interval or longer.   *)
C20_TimeoutWithinOneIteration ==
    /\ LookupStartsBeforeDeadline
    /\ [](NoLookupWithoutTime)
    /\ []((fn = "wait_for_file" /\ outcome = "Timeout")
            => (/\ now - start_time >= timeout
                /\ Requests >= 1 =>
                     now - start_time < timeout + MaxLookupDuration
                                          + poll_interval + MaxSleepOvershoot
                /\ Requests = 0 => now = start_time))

\* the last sleep overran: the error comes at timeout + poll_interval + the
\* lookup's duration, outside the claimed interval
C20_Witness ==
    /\ fn = "wait_for_file"
    /\ outcome = "Timeout"
    /\ Requests >= 1
    /\ now - start_time >= timeout + poll_interval + MaxLookupDuration

----------------------------------------------------------------------------
(* C18: two invocations of update_range_data and/or wait_for_file on two    *)
(* threads do not interfere: under every interleaving a step of the running *)
(* invocation is a step it takes when it runs alone and leaves the frame of *)
(* the other one as it was, a switch hands every counter and timer over     *)
(* unchanged, and the attempt counter, the computed waits, the start time   *)
(* and the outcome of each follow from its own requests and responses.      *)
StepOfRunningThread ==
    /\ other' = other
    /\ Next

SwitchKeepsFrames ==
    /\ other' = Frame
    /\ Frame' = other
    /\ now' = now

\* what a frame holds follows from the requests and responses of its own
\* invocation
OwnCounters(F) ==
    /\ (F.fn = "update_range_data" /\ F.pc \in {"handle", "sleep"})
          => Count(F.log, "request") = F.attempt + 1
    /\ (F.fn = "update_range_data" /\ F.outcome = "RetriesExhausted")
          => (/\ Count(F.log, "request") = F.max_retries
              /\ F.attempt = F.max_retries - 1
              /\ F.raised.rows = <<F.start + 1, F.end>>)
    /\ (F.fn = "update_range_data" /\ F.pc = "sleep")
          => F.wait_time = IF /\ HasRetryAfter(F.response)
                              /\ RetryAfter(F.response) \in DOMAIN Numeral
                           THEN Numeral[RetryAfter(F.response)]
                           ELSE Pow2(F.attempt)
    /\ (F.fn = "update_range_data" /\ Len(F.log) > 0
           /\ F.log[Len(F.log)].ev = "sleep")
          => F.log[Len(F.log)].arg = F.wait_time
    /\ (F.fn = "wait_for_file" /\ F.pc # "start")
          => F.start_time \in 0..now
    /\ (F.fn = "wait_for_file" /\ F.outcome = "Timeout")
          => now - F.start_time >= F.timeout
    /\ (F.fn = "wait_for_file" /\ Len(F.log) > 0
           /\ F.log[Len(F.log)].ev = "sleep")
          => F.log[Len(F.log)].arg = F.poll_interval
    /\ F.outcome = "returned"
          => (F.response.kind = "http" /\ F.response.status_code < 400)

C18_ThreadsDoNotInterfere ==
    /\ [][IF other' # other THEN SwitchKeepsFrames
                            ELSE StepOfRunningThread]_vars
    /\ [](OwnCounters(Frame) /\ OwnCounters(other))

\* both invocations are in the middle of their loops, each after a failed
\* request of its own
C18_Witness ==
    /\ fn = "update_range_data" /\ pc = "sleep" /\ attempt = 1
    /\ other.fn = "wait_for_file" /\ other.pc = "sleep"
    /\ Count(other.log, "request") >= 1
    /\ other.start_time > 0

----------------------------------------------------------------------------
(* C21: wait_for_file has no non-retryable outcome: a lookup answered with  *)
(* a failure status (400, 401, 404, ...) is taken as not yet available, the *)
(* poller sleeps poll_interval and goes back to the deadline test, which    *)
(* starts another lookup while time is left; the only error it raises is    *)
(* the timeout error, and never before the deadline.                        *)
C21_NoNonRetryableOutcome ==
    /\ []((fn = "wait_for_file" /\ pc = "done" /\ outcome # "returned")
            => (/\ outcome = "Timeout"
                /\ raised.kind = "Timeout"
                /\ now - start_time >= timeout))
    /\ [][(fn = "wait_for_file" /\ Failed) =>
            /\ pc = "handle" => (pc' = "sleep" /\ outcome' = "none" /\ log' = log)
            /\ pc = "sleep"
                  => (/\ pc' = "while"
                      /\ outcome' = "none"
                      /\ log' = Append(log, Sleep(poll_interval)))
            /\ pc = "while"
                  => IF now - start_time < timeout
                     THEN pc' = "request" /\ outcome' = "none"
                     ELSE pc' = "done" /\ outcome' = "Timeout"
            /\ pc = "request"
                  => (pc' = "handle" /\ log' = Append(log, Request))
         ]_vars

\* a lookup answered 401, the sleep after it, and the next lookup about to
\* be made
C21_Witness ==
    /\ fn = "wait_for_file"
    /\ Failed /\ response.status_code = 401
    /\ pc = "request"
    /\ Requests = 1 /\ Sleeps = 1
    /\ LastEvent = "sleep"
    /\ outcome = "none"

----------------------------------------------------------------------------
(* C22: in update_range_data the backoff sleep follows every retryable      *)
(* failure, the last one included: a run of N = max_retries attempts that   *)
(* all fail retryably makes exactly N sleeps, the N-th after the last       *)
(* attempt and before the retries-exhausted error; with no hints the waits  *)
(* add up to 2^N - 1 seconds.                                               *)
RECURSIVE TotalWait(_)
TotalWait(s) ==
    IF Len(s) = 0 THEN 0
    ELSE TotalWait(Tail(s)) + (IF Head(s).ev = "sleep" THEN Head(s).arg ELSE 0)

\* no sleep of the log is as long as a Retry-After numeral of the model says:
\* none of these is a power of two, so every wait was computed without a hint
NoHintedWait ==
    \A i \in 1..Len(log) :
       log[i].ev = "sleep" => \A h \in DOMAIN Numeral : log[i].arg # Numeral[h]

\* the budget is used up and the last attempt failed retryably as well (the
\* earlier ones did, or the run had ended with them)
AllAttemptsFailedRetryably ==
    /\ fn = "update_range_data"
    /\ pc = "done"
    /\ max_retries >= 1
    /\ Requests = max_retries
    /\ Failed /\ SpecRetryable

C22_SleepAfterEveryFailure ==
    AllAttemptsFailedRetryably
    => (/\ Sleeps = max_retries
        /\ LastEvent = "sleep"
        /\ outcome = "RetriesExhausted"
        /\ NoHintedWait => TotalWait(log) = 2 ^ max_retries - 1)

\* what the code does guarantee: a run that ends with the retries-exhausted
\* error has slept after each of its attempts
C22_ExhaustedAfterLastSleep ==
    (fn = "update_range_data" /\ outcome = "RetriesExhausted")
    => (/\ Sleeps = max_retries /\ Requests = max_retries
        /\ max_retries >= 1 => LastEvent = "sleep"
        /\ NoHintedWait => TotalWait(log) = 2 ^ max_retries - 1)

----------------------------------------------------------------------------
(* C23, as claimed: in the two refresh methods retry_count stays within     *)
(* 0..max_retries, goes up by one on each retryable failure (HTTP 429 or    *)
(* MaxRequestDurationExceeded) and on nothing else, and the wait after the  *)
(* failure number k (from 0) is 2^(k+1), whatever Retry-After says.         *)
RetryCountInRange ==
    fn \in RefreshFns => retry_count \in 0..max_retries

RetryCountStepsOn(retryable) ==
    fn \in RefreshFns =>
       /\ (pc = "handle" /\ Failed /\ retryable)
             => (/\ retry_count' = retry_count + 1
                 /\ wait_time' = 2 ^ (retry_count + 1)
                 /\ pc' = "sleep")
       /\ retry_count' # retry_count
             => (pc = "handle" /\ Failed /\ retryable)
       /\ pc = "sleep"
             => (/\ log' = Append(log, Sleep(2 ^ retry_count))
                 /\ retry_count' = retry_count)

C23_RetryCountPerRetryableFailure ==
    /\ [](RetryCountInRange)
    /\ [][RetryCountStepsOn(SpecRetryable)]_vars

(* C23, amended: the same, the failures that count being those whose body   *)
(* contains MaxRequestDurationExceeded; a 429 without it ends the call and  *)
(* leaves retry_count as it is.                                             *)
C23_RetryCountPerDurationExceeded ==
    /\ [](RetryCountInRange)
    /\ [][RetryCountStepsOn(response.mrde)]_vars

\* the second failure of refresh_individual_pivot_table, with a Retry-After
\* of 5 seconds: the wait is 4
C23_Witness ==
    /\ fn = "refresh_individual_pivot_table"
    /\ pc = "while"
    /\ response.mrde /\ Failed
    /\ HasRetryAfter(response) /\ RetryAfter(response) = <<"5">>
    /\ retry_count = 2 /\ Requests = 2
    /\ LastEvent = "sleep" /\ LastArg = 4

----------------------------------------------------------------------------
(* C24: every retry loop terminates for every sequence of responses: each   *)
(* of update_range_data, refresh_pivot_table and                            *)
(* refresh_individual_pivot_table makes at most max_retries requests of the *)
(* wrapped call and, when all its requests return, ends as a success, a     *)
(* non-retryable error or retries exhausted.                                *)
EveryRequestReturned ==
    outcome \notin {"TransportError", "DiagnosticTransportError"}

C24_EndsInOneOfThree ==
    (fn \in RetryFns /\ pc = "done" /\ EveryRequestReturned)
    => (/\ Requests <= max_retries
        /\ outcome \in {"returned", "NonRetryableError", "RetriesExhausted"})

\* what the code does guarantee: the loops end, within their budget (under
\* FairSpec)
C24_RetryLoopsTerminate ==
    /\ fn \in RetryFns => <>(pc = "done" /\ outcome # "none")
    /\ [](fn \in RetryFns => Requests <= max_retries)

----------------------------------------------------------------------------
(* C25: wait_for_file terminates, by returning a value or by raising the    *)
(* timeout error, for every sequence of lookup outcomes, the clock          *)
(* advancing by poll_interval > 0 or more across each sleep; it makes at    *)
(* most ceil(timeout / poll_interval) lookups, which is the number it makes *)
(* when lookups take no time and none finds the file.                       *)
CeilDiv(a, b) == IF a <= 0 THEN 0 ELSE (a + b - 1) \div b

C25_PollerTerminates ==
    /\ fn = "wait_for_file"
          => <>(pc = "done" /\ outcome \in {"returned", "Timeout"})
    /\ [](fn = "wait_for_file"
             => (/\ poll_interval > 0
                 /\ Requests <= CeilDiv(timeout, poll_interval)
                 /\ Sleeps <= Requests))

\* lookups at 0, 3, 6 and 9 seconds, none taking time, then the timeout
C25_Witness ==
    /\ fn = "wait_for_file"
    /\ timeout = 10 /\ poll_interval = 3
    /\ outcome = "Timeout"
    /\ Requests = 4 /\ Sleeps = 4
    /\ now - start_time = 12

====
